---- MODULE Spec2Model ----
(***************************************************************************)
(* A model of the MCP client of darrenanggayla/specialproject:             *)
(* OllamaMCPClient (src/MCP/ollama-mcp-client/src/clients/ollama_client.py)*)
(*                                                                         *)
(*   Spec      the life cycle of one client: create() connecting the       *)
(*             configured servers one after the other, select_server(),    *)
(*             get_tools() and the closing of the exit stack.              *)
(*   SpecTurn  the conversation engine of a created client:                *)
(*             process_message(), the recursive prompt loop, _tool_call(). *)
(*   SpecApp   the web front end (src/MCP/app.py): concurrent POST /chat    *)
(*             requests, the lock-guarded singleton of get_ollama_client() *)
(*             and the streamed turn of each request.                      *)
(*   SpecKB    the knowledge lookup of the tool server                     *)
(*             (src/MCP/ollama-mcp-client/server/server.py): smart_query() *)
(*             with extract_keywords() and calculate_match_score().        *)
(*                                                                         *)
(* Names (server names, tool names, function names requested by the model) *)
(* are sequences of one-character strings, so that the f-string            *)
(* "{name}/{tool.name}" of _connect_to_server and the split("/") of        *)
(* _tool_call are computed on the characters, as the code computes them.   *)
(***************************************************************************)
EXTENDS Naturals, Sequences, FiniteSets

VARIABLES
    config,             \* create(config): the configured server names, in dict order
    adv,                \* what list_tools() of each connected server answered
    pc,                 \* "connecting" | "ready" | "failed": where create() is
    idx,                \* number of config entries the loop of line 87 has taken
    servers,            \* self.servers: insertion-ordered dict, name -> tools
    selected_server,    \* self.selected_server
    exit_stack,         \* self.exit_stack: the entered contexts, oldest first
    released,           \* the contexts exited so far, in the order of their exit
    launched,           \* the servers whose subprocess stdio_client() started
    returned,           \* create() has returned the client to its caller
    lastSel,            \* the argument of the last select_server(), or NoSel
    closes,             \* number of __aexit__ calls so far
    tpc,                \* the turn: "idle" | "prompting" | "streaming" | "executing" | "done" | "raised"
    messages,           \* self.messages: the history
    out,                \* the ChatResponse parts process_message has yielded in this turn
    batch,              \* tool_calls of the unit _tool_call is working on
    bi,                 \* number of calls of batch already worked on
    tmsgs,              \* the local list `messages` of _tool_call
    tool_message_count, \* the local counter of _recursive_prompt
    err,                \* the exception that ended the turn, or "none"
    units,              \* units with content or tool calls the streams of this turn delivered
    turns,              \* number of process_message calls so far
    log,                \* what the environment saw of this turn (see NewLog)
    rpc,                \* app.py: where the chat() view of each request is
    lock,               \* app.config['CLIENT_LOCK']: the request holding it, or 0
    waiters,            \* the requests suspended in lock.acquire(), first come first
    singleton,          \* app.config['OLLAMA_CLIENT']: 0 for None, else the client
    made,               \* number of clients OllamaMCPClient.create() has returned
    got,                \* the client get_ollama_client() returned to each request, or 0
    cwd,                \* the working directory of the process
    saved,              \* original_cwd of each get_ollama_client() call
    status,             \* the HTTP status sent to each request, or 0
    body,               \* the kind of body sent to each request
    failed,             \* what failed while the request was served, or "none"
    rounds,             \* chat requests the turn of each request has made
    hist,               \* the history of the shared client: <<request, role>> entries
    mixed,              \* a chat request of the request was sent with messages of a turn still under way
    query,              \* server.py: the argument of smart_query
    table,              \* the rows of table main, in rowid order
    kpc,                \* where smart_query is
    keywords,           \* the local list `keywords` of smart_query
    matches,            \* the local list `matches` of smart_query, after the sort
    result              \* what smart_query returned

lifeVars == <<config, adv, pc, idx, servers, selected_server, exit_stack, released,
              launched, returned, lastSel, closes>>
turnVars == <<tpc, messages, out, batch, bi, tmsgs, tool_message_count, err, units, turns, log>>
appVars == <<rpc, lock, waiters, singleton, made, got, cwd, saved, status, body, failed, rounds, hist,
            mixed>>
kbVars == <<query, table, kpc, keywords, matches, result>>
vars == <<lifeVars, turnVars, appVars, kbVars>>

(***************************************************************************)
(* Bounds of the model.                                                    *)
(***************************************************************************)
MaxServers == 2     \* servers in one configuration
MaxTools == 2       \* tools one server advertises
MaxSelect == 1      \* names in the list given to select_server
MaxCloses == 2      \* __aexit__ calls on one client
MaxTurns == 1       \* process_message calls on one client
MaxRounds == 3      \* chat requests of one turn
MaxUnits == 4       \* units with content or tool calls in the streams of one turn
MaxHistory == 4     \* messages in the history
MaxCalls == 2       \* tool calls the endpoint requests in one turn

(***************************************************************************)
(* Names.                                                                  *)
(***************************************************************************)
SEP == "/"
A == <<"a">>
B == <<"b">>
AB == <<"a", "/", "b">>
Z == <<"z">>
T == <<"t">>
BT == <<"b", "/", "t">>

ServerNames == {A, B, AB}
ToolNames == {T, BT}
\* the names a caller may give to select_server: some are configured, some are not
SelNames == ServerNames
\* the value of lastSel before any call: no argument list holds this name
NoSel == {<<"no select_server yet">>}

\* f"{name}/{tool.name}"
Namespaced(name, tool) == name \o <<SEP>> \o tool

Range(s) == {s[i] : i \in 1..Len(s)}
NoRepeat(s) == \A i, j \in 1..Len(s) : s[i] = s[j] => i = j
SeqsUpTo(S, n) == UNION {[1..k -> S] : k \in 0..n}

\* a configuration is a JSON object: its keys are distinct
Configs == {c \in SeqsUpTo(ServerNames, MaxServers) : NoRepeat(c)}
\* the tools of one server: MCP tool names identify the tool within its server
ToolLists == {l \in SeqsUpTo(ToolNames, MaxTools) : NoRepeat(l)}
SelArgs == {S \in SUBSET SelNames : Cardinality(S) <= MaxSelect}

RECURSIVE Flatten(_)
Flatten(ss) == IF ss = <<>> THEN <<>> ELSE Head(ss) \o Flatten(Tail(ss))

RECURSIVE Filter(_, _)
Filter(s, S) ==
    IF s = <<>> THEN <<>>
    ELSE IF Head(s).name \in S THEN <<Head(s)>> \o Filter(Tail(s), S)
    ELSE Filter(Tail(s), S)

Reverse(s) == [i \in 1..Len(s) |-> s[Len(s) + 1 - i]]
Count(x, s) == Cardinality({i \in 1..Len(s) : s[i] = x})

(***************************************************************************)
(* The client's pure operations.                                           *)
(***************************************************************************)
\* _connect_to_server, lines 113-123: the Tool list built from response.tools
NamespacedTools(name, tools) == [j \in 1..Len(tools) |-> Namespaced(name, tools[j])]

\* the two contexts _connect_to_server enters for one server
StdioOf(name) == <<"stdio_client", name>>
SessionOf(name) == <<"ClientSession", name>>

\* get_tools(): chain.from_iterable over the values of a session dict
get_tools(sel) == Flatten([i \in 1..Len(sel) |-> sel[i].tools])

\* a select_server that filters nothing
select_all(srv, S) == srv
\* a select_server that narrows the scope selected before
select_within(srv, S) == Filter(selected_server, S)
\* select_server(): {name: server for name, server in self.servers.items() if name in servers}
select_server(srv, S) == Filter(srv, S)

Names(srv) == [i \in 1..Len(srv) |-> srv[i].name]

\* str.split("/"): the parts between the separators
RECURSIVE SplitFrom(_, _)
SplitFrom(s, cur) ==
    IF s = <<>> THEN <<cur>>
    ELSE IF Head(s) = SEP THEN <<cur>> \o SplitFrom(Tail(s), <<>>)
    ELSE SplitFrom(Tail(s), Append(cur, Head(s)))
Split(s) == SplitFrom(s, <<>>)

\* the function names the model may request: a tool of a configured server, a
\* tool of a server that was never configured, and a name without a separator
AT == Namespaced(A, T)
ZT == Namespaced(Z, T)
ReqNames == {AT, ZT, A}
\* the batches of tool calls one unit may carry (an empty list is no tool call)
Batches == {b \in SeqsUpTo(ReqNames, MaxCalls) : b # <<>>}

\* a lookup of the session among all the sessions, selected or not
ResolveInAllSessions(fname, sel) ==
    IF Split(fname)[1] \notin Range(Names(servers)) THEN "KeyError"
    ELSE IF Len(Split(fname)) < 2 THEN "IndexError"
    ELSE "ok"
\* _tool_call, lines 192-194, on one call: what the lines before the try do.
\* self.selected_server[split[0]] raises KeyError, then split[1] raises IndexError.
Resolve(fname, sel) ==
    IF Split(fname)[1] \notin Range(Names(sel)) THEN "KeyError"
    ELSE IF Len(Split(fname)) < 2 THEN "IndexError"
    ELSE "ok"

SystemMessage == [role |-> "system", content |-> <<"SYSTEM_PROMPT">>]
UserMessage == [role |-> "user", content |-> <<"query">>]
\* lines 201 and 204: the two strings _tool_call makes of one call
ToolText(fname, outcome) ==
    IF outcome = "return" THEN <<"tool:", fname>> ELSE <<"Error in tool:", fname>>
ToolMessage(text) == [role |-> "tool", content |-> text]
RECURSIVE ErrorNames(_)
ErrorNames(texts) ==
    IF texts = <<>> THEN <<>>
    ELSE IF Head(texts)[1] = "Error in tool:" THEN <<Head(texts)[2]>> \o ErrorNames(Tail(texts))
    ELSE ErrorNames(Tail(texts))
\* parts that all go out under the assistant role
AsAssistant(role, texts) == [i \in 1..Len(texts) |-> [role |-> "assistant", content |-> texts[i]]]
AsRole(role, texts) == [i \in 1..Len(texts) |-> [role |-> role, content |-> texts[i]]]

(***************************************************************************)
(* What the environment of a turn saw (the chat endpoint and the sessions):*)
(*   chat       chat requests the endpoint received                        *)
(*   resp       one entry per stream it answered: the tool calls and the   *)
(*              content fragments it put into the stream so far            *)
(*   requested  tool calls it requested in all the streams                 *)
(*   invoked    the call_tool executions of the sessions:                  *)
(*              <<server, tool, outcome>>                                  *)
(*   thrown     the requested names whose call_tool raised                 *)
(*   unscoped   the requested names _tool_call took whose server prefix is *)
(*              no session of the selected scope                           *)
(*   toolmsgs   tool-role messages appended to the history                 *)
(*   ignored    tool calls it requested in units that also carried content *)
(*   folded     the requested names for which an error description was     *)
(*              appended to the history as a tool message                  *)
(*   prepared   prepare_prompt() has been called on this client (kept from *)
(*              one turn to the next)                                      *)
(*   prevsel    the argument of the select_server() call before the last   *)
(*              one, among the calls made before the first turn            *)
(***************************************************************************)
NewLog == [chat |-> 0, resp |-> <<>>, requested |-> 0, invoked |-> <<>>,
           thrown |-> <<>>, unscoped |-> <<>>, toolmsgs |-> 0, ignored |-> 0,
           folded |-> <<>>, prepared |-> FALSE, prevsel |-> NoSel]

(***************************************************************************)
(* The state after cls(host): __init__, lines 63-68.                       *)
(***************************************************************************)
MaxRequests == 2
MaxAppRounds == 2
Reqs == 1..MaxRequests

\* app.py lines 19-20, before any request
AppInit ==
    /\ rpc = [p \in Reqs |-> "new"]
    /\ lock = 0
    /\ waiters = <<>>
    /\ singleton = 0
    /\ made = 0
    /\ got = [p \in Reqs |-> 0]
    /\ cwd = "original"
    /\ saved = [p \in Reqs |-> "unset"]
    /\ status = [p \in Reqs |-> 0]
    /\ body = [p \in Reqs |-> "none"]
    /\ failed = [p \in Reqs |-> "none"]
    /\ rounds = [p \in Reqs |-> 0]
    /\ hist = <<>>
    /\ mixed = [p \in Reqs |-> FALSE]

\* the tool server before a call of smart_query
KBIdle ==
    /\ query = <<>>
    /\ table = <<>>
    /\ kpc = "idle"
    /\ keywords = <<>>
    /\ matches = <<>>
    /\ result = [kind |-> "none", rows |-> <<>>]

\* a client whose construction already puts the system prompt in the history
TurnInitPrompted ==
    /\ tpc = "idle"
    /\ messages = <<SystemMessage>>
    /\ out = <<>>
    /\ batch = <<>>
    /\ bi = 0
    /\ tmsgs = <<>>
    /\ tool_message_count = 0
    /\ err = "none"
    /\ units = 0
    /\ turns = 0
    /\ log = NewLog

TurnInit ==
    /\ tpc = "idle"
    /\ messages = <<>>
    /\ out = <<>>
    /\ batch = <<>>
    /\ bi = 0
    /\ tmsgs = <<>>
    /\ tool_message_count = 0
    /\ err = "none"
    /\ units = 0
    /\ turns = 0
    /\ log = NewLog

\* __init__ (lines 63-68) and the call of create(); no turn yet
InitClient ==
    /\ config \in Configs
    /\ adv = <<>>
    /\ pc = "connecting"
    /\ idx = 0
    /\ servers = <<>>
    /\ selected_server = <<>>
    /\ exit_stack = <<>>
    /\ released = <<>>
    /\ launched = <<>>
    /\ returned = FALSE
    /\ lastSel = NoSel
    /\ closes = 0
    /\ TurnInit

Init ==
    /\ InitClient
    /\ AppInit
    /\ KBIdle

(***************************************************************************)
(* create(): _connect_to_multiple_servers takes the servers one by one.    *)
(***************************************************************************)
\* one pass of the loop of line 87 in which _connect_to_server returns
ConnectServer(tools) ==
    /\ pc = "connecting"
    /\ idx < Len(config)
    /\ LET name == config[idx + 1] IN
        /\ exit_stack' = exit_stack \o <<StdioOf(name), SessionOf(name)>>
        /\ launched' = Append(launched, name)
        /\ adv' = Append(adv, tools)
        /\ servers' = Append(servers, [name |-> name, tools |-> NamespacedTools(name, tools)])
    /\ idx' = idx + 1
    /\ UNCHANGED <<config, pc, selected_server, released, returned, lastSel, closes>>
    /\ UNCHANGED <<turnVars, appVars, kbVars>>

\* the same pass with the failure swallowed and the loop going on
ConnectFailSwallowed(stage) ==
    /\ pc = "connecting"
    /\ idx < Len(config)
    /\ LET name == config[idx + 1] IN
        IF stage = "stdio_client"
        THEN UNCHANGED <<exit_stack, launched>>
        ELSE /\ exit_stack' = exit_stack \o <<StdioOf(name), SessionOf(name)>>
             /\ launched' = Append(launched, name)
    /\ idx' = idx + 1
    /\ UNCHANGED <<config, adv, pc, servers, selected_server, released, returned, lastSel, closes>>
    /\ UNCHANGED <<turnVars, appVars, kbVars>>

\* one pass in which _connect_to_server raises: at stdio_client() (line 106, the
\* subprocess does not start), at session.initialize() (line 109) or at
\* session.list_tools() (line 112). Nothing catches it: create() raises, and the
\* contexts entered so far stay on the exit stack of a client nobody holds.
ConnectFail(stage) ==
    /\ pc = "connecting"
    /\ idx < Len(config)
    /\ LET name == config[idx + 1] IN
        IF stage = "stdio_client"
        THEN UNCHANGED <<exit_stack, launched>>
        ELSE /\ exit_stack' = exit_stack \o <<StdioOf(name), SessionOf(name)>>
             /\ launched' = Append(launched, name)
    /\ pc' = "failed"
    /\ UNCHANGED <<config, adv, idx, servers, selected_server, released, returned, lastSel, closes>>
    /\ UNCHANGED <<turnVars, appVars, kbVars>>

\* lines 91-96 and create()'s return: the scope defaults to all the servers
FinishConnect ==
    /\ pc = "connecting"
    /\ idx = Len(config)
    /\ selected_server' = servers
    /\ pc' = "ready"
    /\ returned' = TRUE
    /\ UNCHANGED <<config, adv, idx, servers, exit_stack, released, launched, lastSel, closes>>
    /\ UNCHANGED <<turnVars, appVars, kbVars>>

\* select_server with the sessions out of the list dropped from self.servers too
SelectServerDestroying(S) ==
    /\ pc = "ready"
    /\ tpc \in {"idle", "done", "raised"}
    /\ turns < MaxTurns
    /\ selected_server' = select_server(servers, S)
    /\ servers' = select_server(servers, S)
    /\ lastSel' = S
    /\ UNCHANGED <<config, adv, pc, idx, exit_stack, released, launched, returned, closes>>
    /\ log' = IF turns = 0 THEN [log EXCEPT !.prevsel = lastSel] ELSE log
    /\ UNCHANGED <<tpc, messages, out, batch, bi, tmsgs, tool_message_count, err, units, turns>>
    /\ UNCHANGED <<appVars, kbVars>>

\* select_server(servers), called by the caller between two turns
\* (ollama_example.py, lines 29-32); the calls after the last turn of the model,
\* whose scope no turn reads, are left out
SelectServer(S) ==
    /\ pc = "ready"
    /\ tpc \in {"idle", "done", "raised"}
    /\ turns < MaxTurns
    /\ selected_server' = select_server(servers, S)
    /\ lastSel' = S
    /\ UNCHANGED <<config, adv, pc, idx, servers, exit_stack, released, launched, returned, closes>>
    /\ log' = IF turns = 0 THEN [log EXCEPT !.prevsel = lastSel] ELSE log
    /\ UNCHANGED <<tpc, messages, out, batch, bi, tmsgs, tool_message_count, err, units, turns>>
    /\ UNCHANGED <<appVars, kbVars>>

\* an aclose() that exits the contexts in the order they were entered
CloseFirstInFirstOut ==
    /\ pc = "ready"
    /\ closes < MaxCloses
    /\ released' = released \o exit_stack
    /\ exit_stack' = <<>>
    /\ closes' = closes + 1
    /\ UNCHANGED <<config, adv, pc, idx, servers, selected_server, launched, returned, lastSel>>
    /\ UNCHANGED <<turnVars, appVars, kbVars>>

\* an aclose() that runs the exit callbacks and leaves them on the stack
CloseKeeping ==
    /\ pc = "ready"
    /\ closes < MaxCloses
    /\ released' = released \o Reverse(exit_stack)
    /\ closes' = closes + 1
    /\ UNCHANGED <<config, adv, pc, idx, servers, selected_server, exit_stack, launched, returned, lastSel>>
    /\ UNCHANGED <<turnVars, appVars, kbVars>>

\* __aexit__, lines 73-77: exit_stack.aclose() pops and exits every entered
\* context, the last entered first; on an empty stack it does nothing
Close ==
    /\ pc = "ready"
    /\ closes < MaxCloses
    /\ released' = released \o Reverse(exit_stack)
    /\ exit_stack' = <<>>
    /\ closes' = closes + 1
    /\ UNCHANGED <<config, adv, pc, idx, servers, selected_server, launched, returned, lastSel>>
    /\ UNCHANGED <<turnVars, appVars, kbVars>>

ConnectStages == {"stdio_client", "initialize", "list_tools"}

Next ==
    \/ \E tools \in ToolLists : ConnectServer(tools)
    \/ \E stage \in ConnectStages : ConnectFail(stage)
    \/ FinishConnect
    \/ \E S \in SelArgs : SelectServer(S)
    \/ Close

Spec == Init /\ [][Next]_vars

(***************************************************************************)
(* The conversation engine: one turn is one process_message() call, run by *)
(* its caller to the end of the generator.                                 *)
(***************************************************************************)
\* what a step of a turn leaves alone: the life cycle, the front end, the tool server
lifeUnchanged == UNCHANGED <<config, adv, pc, idx, servers, selected_server, exit_stack,
                             released, launched, returned, lastSel, closes, appVars, kbVars>>

BetweenTurns == pc = "ready" /\ tpc \in {"idle", "done", "raised"}

\* prepare_prompt(), line 148: the history becomes the system prompt alone
PreparePrompt ==
    /\ BetweenTurns
    /\ messages' = <<SystemMessage>>
    /\ log' = [log EXCEPT !.prepared = TRUE]
    /\ lifeUnchanged
    /\ UNCHANGED <<tpc, out, batch, bi, tmsgs, tool_message_count, err, units, turns>>

\* process_message(), lines 155-159: the user message is appended and the
\* first _recursive_prompt begins
ProcessMessage ==
    /\ BetweenTurns
    /\ turns < MaxTurns
    /\ Len(messages) < MaxHistory
    /\ turns' = turns + 1
    /\ messages' = Append(messages, UserMessage)
    /\ tpc' = "prompting"
    /\ out' = <<>>
    /\ err' = "none"
    /\ log' = [NewLog EXCEPT !.prepared = log.prepared]
    /\ batch' = <<>>
    /\ bi' = 0
    /\ tmsgs' = <<>>
    /\ tool_message_count' = 0
    /\ units' = 0
    /\ lifeUnchanged

\* _recursive_prompt, lines 166-173: self.client.chat(...) answers with a stream
ChatRequest ==
    /\ tpc = "prompting"
    /\ log.chat < MaxRounds
    /\ tpc' = "streaming"
    /\ tool_message_count' = 0
    /\ log' = [log EXCEPT !.chat = @ + 1, !.resp = Append(@, [calls |-> 0, content |-> 0])]
    /\ lifeUnchanged
    /\ UNCHANGED <<messages, out, batch, bi, tmsgs, err, units, turns>>

\* a failed chat request that is caught and asked again
ChatFailRetried ==
    /\ tpc = "prompting"
    /\ log.chat < MaxRounds
    /\ tpc' = "prompting"
    /\ err' = "ChatError"
    /\ log' = [log EXCEPT !.chat = @ + 1]
    /\ lifeUnchanged
    /\ UNCHANGED <<messages, out, batch, bi, tmsgs, tool_message_count, units, turns>>

\* line 166 raises (the endpoint is unreachable): nothing in the client catches it
ChatFail ==
    /\ tpc = "prompting"
    /\ log.chat < MaxRounds
    /\ tpc' = "raised"
    /\ err' = "ChatError"
    /\ log' = [log EXCEPT !.chat = @ + 1]
    /\ lifeUnchanged
    /\ UNCHANGED <<messages, out, batch, bi, tmsgs, tool_message_count, units, turns>>

CanRequest(calls) ==
    /\ units < MaxUnits
    /\ log.requested + Len(calls) <= MaxCalls

\* the history has room for the results of the calls that are under way
CanAppend(calls) == Len(messages) + Len(calls) <= MaxHistory

NoteUnit(calls, ncontent) ==
    [log EXCEPT !.requested = @ + Len(calls),
                !.resp[Len(log.resp)] = [calls |-> @.calls + Len(calls),
                                        content |-> @.content + ncontent]]

\* a unit with content whose fragment is also kept in the history
StreamContentRecorded(calls) ==
    /\ tpc = "streaming"
    /\ CanRequest(calls)
    /\ out' = Append(out, [role |-> "assistant", content |-> <<"fragment", log.chat>>])
    /\ messages' = Append(messages, [role |-> "assistant", content |-> <<"fragment", log.chat>>])
    /\ units' = units + 1
    /\ log' = [NoteUnit(calls, 1) EXCEPT !.ignored = @ + Len(calls)]
    /\ lifeUnchanged
    /\ UNCHANGED <<tpc, batch, bi, tmsgs, tool_message_count, err, turns>>

\* lines 175-176: a unit whose message.content is not empty is yielded as an
\* assistant part; the elif leaves whatever tool_calls it carries aside
StreamContent(calls) ==
    /\ tpc = "streaming"
    /\ CanRequest(calls)
    /\ out' = Append(out, [role |-> "assistant", content |-> <<"fragment", log.chat>>])
    /\ units' = units + 1
    /\ log' = [NoteUnit(calls, 1) EXCEPT !.ignored = @ + Len(calls)]
    /\ lifeUnchanged
    /\ UNCHANGED <<tpc, messages, batch, bi, tmsgs, tool_message_count, err, turns>>

\* a unit with neither content nor tool calls: both tests of lines 175-177 fail
\* and the loop takes the next unit
StreamEmpty ==
    /\ tpc = "streaming"
    /\ UNCHANGED vars

\* lines 177-179: a unit without content that carries tool calls: _tool_call begins
StreamToolCalls(calls) ==
    /\ tpc = "streaming"
    /\ CanRequest(calls)
    /\ CanAppend(calls)
    /\ log.chat < MaxRounds
    /\ tpc' = "executing"
    /\ batch' = calls
    /\ bi' = 0
    /\ tmsgs' = <<>>
    /\ units' = units + 1
    /\ log' = NoteUnit(calls, 0)
    /\ lifeUnchanged
    /\ UNCHANGED <<messages, out, tool_message_count, err, turns>>

\* _tool_call, lines 191-207, on the next call of the batch. The session is looked
\* up and the name is split before the try: a KeyError or an IndexError leaves
\* _tool_call, _recursive_prompt and process_message. Inside the try,
\* session.call_tool returns or raises, and either way one string is kept.
ToolCallStep(outcome) ==
    /\ tpc = "executing"
    /\ bi < Len(batch)
    /\ LET fname == batch[bi + 1]
           res == Resolve(fname, selected_server)
           unsc == IF Split(fname)[1] \in Range(Names(selected_server))
                   THEN log.unscoped ELSE Append(log.unscoped, fname)
       IN IF res # "ok"
          THEN /\ tpc' = "raised"
               /\ err' = res
               /\ batch' = <<>>
               /\ bi' = 0
               /\ tmsgs' = <<>>
               /\ log' = [log EXCEPT !.unscoped = unsc]
          ELSE /\ tmsgs' = Append(tmsgs, ToolText(fname, outcome))
               /\ bi' = bi + 1
               /\ log' = [log EXCEPT
                            !.invoked = Append(@, <<Split(fname)[1], Split(fname)[2], outcome>>),
                            !.thrown = IF outcome = "raise" THEN Append(@, fname) ELSE @]
               /\ UNCHANGED <<tpc, err, batch>>
    /\ lifeUnchanged
    /\ UNCHANGED <<messages, out, tool_message_count, units, turns>>

\* a return whose tool messages are put in front of the history
ToolCallReturnPrepending ==
    /\ tpc = "executing"
    /\ bi = Len(batch)
    /\ tool_message_count' = tool_message_count + 1
    /\ out' = out \o AsRole("tool", tmsgs)
    /\ messages' = AsRole("tool", tmsgs) \o messages
    /\ log' = [log EXCEPT !.toolmsgs = @ + Len(tmsgs), !.folded = @ \o ErrorNames(tmsgs)]
    /\ tpc' = "streaming"
    /\ batch' = <<>>
    /\ bi' = 0
    /\ tmsgs' = <<>>
    /\ lifeUnchanged
    /\ UNCHANGED <<err, units, turns>>

\* a return that appends the results of a batch last call first
ToolCallReturnReversed ==
    /\ tpc = "executing"
    /\ bi = Len(batch)
    /\ tool_message_count' = tool_message_count + 1
    /\ out' = out \o AsRole("tool", tmsgs)
    /\ messages' = messages \o AsRole("tool", Reverse(tmsgs))
    /\ log' = [log EXCEPT !.toolmsgs = @ + Len(tmsgs), !.folded = @ \o ErrorNames(tmsgs)]
    /\ tpc' = "streaming"
    /\ batch' = <<>>
    /\ bi' = 0
    /\ tmsgs' = <<>>
    /\ lifeUnchanged
    /\ UNCHANGED <<err, units, turns>>

\* _tool_call returns; lines 180-183: the counter goes up by one and every string
\* is yielded as a tool part and appended to the history as a tool message
ToolCallReturn ==
    /\ tpc = "executing"
    /\ bi = Len(batch)
    /\ tool_message_count' = tool_message_count + 1
    /\ out' = out \o AsRole("tool", tmsgs)
    /\ messages' = messages \o AsRole("tool", tmsgs)
    /\ log' = [log EXCEPT !.toolmsgs = @ + Len(tmsgs), !.folded = @ \o ErrorNames(tmsgs)]
    /\ tpc' = "streaming"
    /\ batch' = <<>>
    /\ bi' = 0
    /\ tmsgs' = <<>>
    /\ lifeUnchanged
    /\ UNCHANGED <<err, units, turns>>

\* lines 185-187: the stream is over: a new round when a unit made tool calls,
\* else the generator is exhausted
StreamEnd ==
    /\ tpc = "streaming"
    /\ tpc' = IF tool_message_count > 0 THEN "prompting" ELSE "done"
    /\ lifeUnchanged
    /\ UNCHANGED <<messages, out, batch, bi, tmsgs, tool_message_count, err, units, turns, log>>

CallOutcomes == {"return", "raise"}

\* a client create() returned for two servers with one tool each
TurnConfig == <<A, B>>
TurnAdv == <<<<T>>, <<T>>>>

InitTurn ==
    /\ config = TurnConfig
    /\ adv = TurnAdv
    /\ pc = "ready"
    /\ idx = Len(TurnConfig)
    /\ servers = [i \in 1..Len(TurnConfig) |->
                    [name |-> TurnConfig[i], tools |-> NamespacedTools(TurnConfig[i], TurnAdv[i])]]
    /\ selected_server = servers
    /\ exit_stack = Flatten([i \in 1..Len(TurnConfig) |-> <<StdioOf(TurnConfig[i]), SessionOf(TurnConfig[i])>>])
    /\ released = <<>>
    /\ launched = TurnConfig
    /\ returned = TRUE
    /\ lastSel = NoSel
    /\ closes = 0
    /\ TurnInit
    /\ AppInit
    /\ KBIdle

NextTurn ==
    \/ \E S \in SelArgs : SelectServer(S)
    \/ PreparePrompt
    \/ ProcessMessage
    \/ ChatRequest
    \/ ChatFail
    \/ \E calls \in Batches \cup {<<>>} : StreamContent(calls)
    \/ StreamEmpty
    \/ \E calls \in Batches : StreamToolCalls(calls)
    \/ \E outcome \in CallOutcomes : ToolCallStep(outcome)
    \/ ToolCallReturn
    \/ StreamEnd

SpecTurn == InitTurn /\ [][NextTurn]_vars

(***************************************************************************)
(* The web front end, src/MCP/app.py.  The requests are coroutines of one  *)
(* event loop: a step runs from one await to the next.  The turn of a      *)
(* request is kept to what the front end sees of it: the appends to the    *)
(* history of the shared client, the chat requests and how the turn ends.  *)
(***************************************************************************)
appUnchanged == UNCHANGED <<lifeVars, turnVars, kbVars>>

\* the history holds a message of the turn of another request that is under way
Unfinished(p) ==
    \E i \in 1..Len(hist) : hist[i][1] # p /\ rpc[hist[i][1]] \in {"prompting", "awaiting"}

\* chat(), lines 57-61: no "message" in the JSON body
AppBadRequest(p) ==
    /\ rpc[p] = "new"
    /\ rpc' = [rpc EXCEPT ![p] = "answered"]
    /\ status' = [status EXCEPT ![p] = 400]
    /\ body' = [body EXCEPT ![p] = "error: No message provided"]
    /\ appUnchanged
    /\ UNCHANGED <<lock, waiters, singleton, made, got, cwd, saved, failed, rounds, mixed, hist>>

\* chat(), lines 57-65, with a message: get_ollama_client() is called
AppCall(p) ==
    /\ rpc[p] = "new"
    /\ rpc' = [rpc EXCEPT ![p] = "calling"]
    /\ appUnchanged
    /\ UNCHANGED <<lock, waiters, singleton, made, got, cwd, saved, status, body, failed, rounds, mixed, hist>>

\* an entry into get_ollama_client() that does not look at the lock
EnterUnlocked(p, cfgOk) ==
    IF singleton # 0
    THEN /\ rpc' = [rpc EXCEPT ![p] = "streaming"]
         /\ got' = [got EXCEPT ![p] = singleton]
         /\ status' = [status EXCEPT ![p] = 200]
         /\ body' = [body EXCEPT ![p] = "stream"]
         /\ UNCHANGED <<lock, cwd, saved, failed>>
    ELSE IF cfgOk
    THEN /\ saved' = [saved EXCEPT ![p] = cwd]
         /\ cwd' = "server"
         /\ rpc' = [rpc EXCEPT ![p] = "creating"]
         /\ UNCHANGED <<lock, got, status, body, failed>>
    ELSE /\ saved' = [saved EXCEPT ![p] = cwd]
         /\ cwd' = cwd
         /\ rpc' = [rpc EXCEPT ![p] = "answered"]
         /\ status' = [status EXCEPT ![p] = 500]
         /\ body' = [body EXCEPT ![p] = "error: kind: detail"]
         /\ failed' = [failed EXCEPT ![p] = "construction"]
         /\ UNCHANGED <<lock, got>>

\* get_ollama_client(), lines 27-46, from the moment the lock is held up to the
\* first await or the return, and chat() lines 67-76 after the return:
\*   line 29 false: the lock is released, the singleton returned, chat() returns
\*                  the streaming Response (status 200);
\*   line 29 true:  lines 33-34 save the cwd and chdir, line 37 reads the config
\*                  and line 38 awaits create() with the lock held; if line 37
\*                  raises, line 44 restores the cwd, the lock is released and
\*                  the except of chat() (lines 78-81) answers 500.
Enter(p, cfgOk) ==
    IF singleton # 0
    THEN /\ lock' = 0
         /\ rpc' = [rpc EXCEPT ![p] = "streaming"]
         /\ got' = [got EXCEPT ![p] = singleton]
         /\ status' = [status EXCEPT ![p] = 200]
         /\ body' = [body EXCEPT ![p] = "stream"]
         /\ UNCHANGED <<cwd, saved, failed>>
    ELSE IF cfgOk
    THEN /\ lock' = p
         /\ saved' = [saved EXCEPT ![p] = cwd]
         /\ cwd' = "server"
         /\ rpc' = [rpc EXCEPT ![p] = "creating"]
         /\ UNCHANGED <<got, status, body, failed>>
    ELSE /\ lock' = 0
         /\ saved' = [saved EXCEPT ![p] = cwd]
         /\ cwd' = cwd
         /\ rpc' = [rpc EXCEPT ![p] = "answered"]
         /\ status' = [status EXCEPT ![p] = 500]
         /\ body' = [body EXCEPT ![p] = "error: kind: detail"]
         /\ failed' = [failed EXCEPT ![p] = "construction"]
         /\ UNCHANGED got

\* an acquire that takes the lock whoever holds it
AppAcquireAnyway(p, cfgOk) ==
    /\ rpc[p] = "calling"
    /\ EnterUnlocked(p, cfgOk)
    /\ appUnchanged
    /\ UNCHANGED <<waiters, singleton, made, rounds, mixed, hist>>

\* line 27, asyncio.Lock.acquire() on a free lock nobody waits for: no suspension
AppAcquireFree(p, cfgOk) ==
    /\ rpc[p] = "calling"
    /\ lock = 0
    /\ waiters = <<>>
    /\ Enter(p, cfgOk)
    /\ appUnchanged
    /\ UNCHANGED <<waiters, singleton, made, rounds, mixed, hist>>

\* line 27, acquire() on a held lock, or behind earlier waiters: the caller is suspended
AppAcquireQueue(p) ==
    /\ rpc[p] = "calling"
    /\ lock # 0 \/ waiters # <<>>
    /\ waiters' = Append(waiters, p)
    /\ rpc' = [rpc EXCEPT ![p] = "waiting"]
    /\ appUnchanged
    /\ UNCHANGED <<lock, singleton, made, got, cwd, saved, status, body, failed, rounds, mixed, hist>>

\* line 27, the release woke the first waiter: it takes the lock and goes on
AppAcquireWoken(p, cfgOk) ==
    /\ rpc[p] = "waiting"
    /\ lock = 0
    /\ waiters # <<>>
    /\ Head(waiters) = p
    /\ waiters' = Tail(waiters)
    /\ Enter(p, cfgOk)
    /\ appUnchanged
    /\ UNCHANGED <<singleton, made, rounds, mixed, hist>>

\* lines 38-46: create() returned a client; it becomes the singleton, the cwd is
\* restored, the lock released; chat() lines 67-76 return the streaming Response
AppCreateOk(p) ==
    /\ rpc[p] = "creating"
    /\ made' = made + 1
    /\ singleton' = made + 1
    /\ cwd' = saved[p]
    /\ lock' = 0
    /\ got' = [got EXCEPT ![p] = made + 1]
    /\ status' = [status EXCEPT ![p] = 200]
    /\ body' = [body EXCEPT ![p] = "stream"]
    /\ rpc' = [rpc EXCEPT ![p] = "streaming"]
    /\ appUnchanged
    /\ UNCHANGED <<waiters, saved, failed, rounds, mixed, hist>>

\* a create() that raised with the lock still held afterwards
AppCreateFailHolding(p) ==
    /\ rpc[p] = "creating"
    /\ cwd' = saved[p]
    /\ status' = [status EXCEPT ![p] = 500]
    /\ body' = [body EXCEPT ![p] = "error: kind: detail"]
    /\ failed' = [failed EXCEPT ![p] = "construction"]
    /\ rpc' = [rpc EXCEPT ![p] = "answered"]
    /\ appUnchanged
    /\ UNCHANGED <<lock, waiters, singleton, made, got, saved, rounds, mixed, hist>>

\* lines 38-44 and 78-81: create() raised; the singleton stays None, the cwd is
\* restored, the lock released, the except of chat() answers 500
AppCreateFail(p) ==
    /\ rpc[p] = "creating"
    /\ cwd' = saved[p]
    /\ lock' = 0
    /\ status' = [status EXCEPT ![p] = 500]
    /\ body' = [body EXCEPT ![p] = "error: kind: detail"]
    /\ failed' = [failed EXCEPT ![p] = "construction"]
    /\ rpc' = [rpc EXCEPT ![p] = "answered"]
    /\ appUnchanged
    /\ UNCHANGED <<waiters, singleton, made, got, saved, rounds, mixed, hist>>

\* generate(), line 72, run when the body of the Response is iterated, after
\* chat() returned: process_message appends the user message (line 157)
AppProcessMessage(p) ==
    /\ rpc[p] = "streaming"
    /\ hist' = Append(hist, <<p, "user">>)
    /\ rpc' = [rpc EXCEPT ![p] = "prompting"]
    /\ appUnchanged
    /\ UNCHANGED <<lock, waiters, singleton, made, got, cwd, saved, status, body, failed, rounds, mixed>>

\* _recursive_prompt line 166: the chat request is sent and answered with a stream
AppChatRequest(p) ==
    /\ rpc[p] = "prompting"
    /\ rounds[p] < MaxAppRounds
    /\ rounds' = [rounds EXCEPT ![p] = @ + 1]
    /\ mixed' = [mixed EXCEPT ![p] = @ \/ Unfinished(p)]
    /\ rpc' = [rpc EXCEPT ![p] = "awaiting"]
    /\ appUnchanged
    /\ UNCHANGED <<lock, waiters, singleton, made, got, cwd, saved, status, body, failed, hist>>

\* line 166 raises: the exception leaves process_message and generate(), after
\* chat() and its try block (lines 63-81) were left with the Response
AppChatFail(p) ==
    /\ rpc[p] = "prompting"
    /\ rounds[p] < MaxAppRounds
    /\ rounds' = [rounds EXCEPT ![p] = @ + 1]
    /\ mixed' = [mixed EXCEPT ![p] = @ \/ Unfinished(p)]
    /\ failed' = [failed EXCEPT ![p] = "turn"]
    /\ rpc' = [rpc EXCEPT ![p] = "answered"]
    /\ appUnchanged
    /\ UNCHANGED <<lock, waiters, singleton, made, got, cwd, saved, status, body, hist>>

\* the stream held content only: generate() yields it and the turn ends
AppStreamContent(p) ==
    /\ rpc[p] = "awaiting"
    /\ rpc' = [rpc EXCEPT ![p] = "answered"]
    /\ appUnchanged
    /\ UNCHANGED <<lock, waiters, singleton, made, got, cwd, saved, status, body, failed, rounds, mixed, hist>>

\* the stream held a tool call: its tool message is appended (line 183) and
\* the loop prompts again (lines 185-187)
AppStreamToolCalls(p) ==
    /\ rpc[p] = "awaiting"
    /\ rounds[p] < MaxAppRounds
    /\ hist' = Append(hist, <<p, "tool">>)
    /\ rpc' = [rpc EXCEPT ![p] = "prompting"]
    /\ appUnchanged
    /\ UNCHANGED <<lock, waiters, singleton, made, got, cwd, saved, status, body, failed, rounds, mixed>>

\* the stream held a tool call whose lookup raises (lines 192-194)
AppStreamRaise(p) ==
    /\ rpc[p] = "awaiting"
    /\ failed' = [failed EXCEPT ![p] = "turn"]
    /\ rpc' = [rpc EXCEPT ![p] = "answered"]
    /\ appUnchanged
    /\ UNCHANGED <<lock, waiters, singleton, made, got, cwd, saved, status, body, rounds, mixed, hist>>

InitApp == Init /\ config = TurnConfig

NextApp ==
    \/ \E p \in Reqs : AppBadRequest(p)
    \/ \E p \in Reqs : AppCall(p)
    \/ \E p \in Reqs, cfgOk \in BOOLEAN : AppAcquireFree(p, cfgOk)
    \/ \E p \in Reqs : AppAcquireQueue(p)
    \/ \E p \in Reqs, cfgOk \in BOOLEAN : AppAcquireWoken(p, cfgOk)
    \/ \E p \in Reqs : AppCreateOk(p)
    \/ \E p \in Reqs : AppCreateFail(p)
    \/ \E p \in Reqs : AppProcessMessage(p)
    \/ \E p \in Reqs : AppChatRequest(p)
    \/ \E p \in Reqs : AppChatFail(p)
    \/ \E p \in Reqs : AppStreamContent(p)
    \/ \E p \in Reqs : AppStreamToolCalls(p)
    \/ \E p \in Reqs : AppStreamRaise(p)

SpecApp == InitApp /\ [][NextApp]_vars

(***************************************************************************)
(* The knowledge lookup of the tool server,                                *)
(* src/MCP/ollama-mcp-client/server/server.py.  Strings are sequences of   *)
(* one-character strings; lower(), the re.sub of line 100, split() and the *)
(* `in` of line 128 are computed on the characters.                        *)
(***************************************************************************)
TopMatches == 3     \* matches[:3]
MinLength == 2      \* len(word) > 2
MaxChunks == 2      \* pieces a query is put together from
MaxRows == 4        \* rows of table main

UpperCase == <<"A", "B", "C", "D", "E", "F", "G", "H", "I", "J", "K", "L", "M", "N", "O", "P", "Q", "R", "S", "T", "U", "V", "W", "X", "Y", "Z">>
LowerCase == <<"a", "b", "c", "d", "e", "f", "g", "h", "i", "j", "k", "l", "m", "n", "o", "p", "q", "r", "s", "t", "u", "v", "w", "x", "y", "z">>
Digits == {"0", "1", "2", "3", "4", "5", "6", "7", "8", "9"}
Whitespace == {" "}

\* str.lower() on one character and on a string (ASCII)
LowerOf == [c \in Range(UpperCase) |-> LowerCase[CHOOSE i \in 1..Len(UpperCase) : UpperCase[i] = c]]
CharLower(c) == IF c \in DOMAIN LowerOf THEN LowerOf[c] ELSE c
str_lower(str) == [i \in 1..Len(str) |-> CharLower(str[i])]

\* line 100: re.sub(r'[^a-z0-9\s]', ' ', query_lower)
KeptChars == Range(LowerCase) \cup Digits \cup Whitespace
Kept(c) == c \in KeptChars
re_sub(str) == [i \in 1..Len(str) |-> IF Kept(str[i]) THEN str[i] ELSE " "]

\* line 103: str.split() with no argument: the runs of non-whitespace characters
RECURSIVE SplitWords(_, _)
SplitWords(str, word) ==
    IF str = <<>> THEN (IF word = <<>> THEN <<>> ELSE <<word>>)
    ELSE IF Head(str) \in Whitespace
         THEN (IF word = <<>> THEN <<>> ELSE <<word>>) \o SplitWords(Tail(str), <<>>)
         ELSE SplitWords(Tail(str), Append(word, Head(str)))
str_split(str) == SplitWords(str, <<>>)

\* lines 85-95
stopwords == {
    <<"w", "h", "a", "t">>, <<"i", "s">>, <<"a", "r", "e">>, <<"t", "h", "e">>, <<"a">>,
    <<"a", "n">>, <<"i", "n">>, <<"o", "n">>, <<"a", "t">>, <<"t", "o">>, <<"f", "o", "r">>,
    <<"o", "f">>, <<"w", "i", "t", "h">>, <<"b", "y">>, <<"f", "r", "o", "m">>,
    <<"a", "b", "o", "u", "t">>, <<"a", "s">>, <<"i", "n", "t", "o">>,
    <<"t", "h", "r", "o", "u", "g", "h">>, <<"d", "u", "r", "i", "n", "g">>,
    <<"b", "e", "f", "o", "r", "e">>, <<"a", "f", "t", "e", "r">>, <<"a", "b", "o", "v", "e">>,
    <<"b", "e", "l", "o", "w">>, <<"b", "e", "t", "w", "e", "e", "n">>, <<"u", "n", "d", "e", "r">>,
    <<"a", "g", "a", "i", "n">>, <<"f", "u", "r", "t", "h", "e", "r">>, <<"t", "h", "e", "n">>,
    <<"o", "n", "c", "e">>, <<"h", "e", "r", "e">>, <<"t", "h", "e", "r", "e">>,
    <<"w", "h", "e", "n">>, <<"w", "h", "e", "r", "e">>, <<"w", "h", "y">>, <<"h", "o", "w">>,
    <<"a", "l", "l">>, <<"b", "o", "t", "h">>, <<"e", "a", "c", "h">>, <<"f", "e", "w">>,
    <<"m", "o", "r", "e">>, <<"m", "o", "s", "t">>, <<"o", "t", "h", "e", "r">>,
    <<"s", "o", "m", "e">>, <<"s", "u", "c", "h">>, <<"n", "o">>, <<"n", "o", "r">>,
    <<"n", "o", "t">>, <<"o", "n", "l", "y">>, <<"o", "w", "n">>, <<"s", "a", "m", "e">>,
    <<"s", "o">>, <<"t", "h", "a", "n">>, <<"t", "o", "o">>, <<"v", "e", "r", "y">>,
    <<"c", "a", "n">>, <<"w", "i", "l", "l">>, <<"j", "u", "s", "t">>,
    <<"s", "h", "o", "u", "l", "d">>, <<"d", "o">>, <<"d", "o", "e", "s">>, <<"d", "i", "d">>,
    <<"t", "e", "l", "l">>, <<"m", "e">>, <<"p", "l", "e", "a", "s", "e">>, <<"y", "o", "u">>,
    <<"i">>, <<"m", "y">>, <<"y", "o", "u", "r">>, <<"i", "t">>, <<"i", "t", "s">>,
    <<"t", "h", "i", "s">>, <<"t", "h", "a", "t">>, <<"t", "h", "e", "s", "e">>,
    <<"t", "h", "o", "s", "e">>, <<"a", "n", "d">>, <<"o", "r">>, <<"b", "u", "t">>, <<"i", "f">>,
    <<"b", "e", "c", "a", "u", "s", "e">>}

\* an extract_keywords that does not lower-case the query
extract_keywords_cased(q) ==
    SelectSeq(str_split(re_sub(q)), LAMBDA word : word \notin stopwords /\ Len(word) > MinLength)

\* extract_keywords, lines 75-108
extract_keywords(q) ==
    SelectSeq(str_split(re_sub(str_lower(q))), LAMBDA word : word \notin stopwords /\ Len(word) > MinLength)

\* `keyword in db_question_lower` (line 128): substring test
Contains(sub, str) ==
    \E i \in 0..Len(str) : i + Len(sub) <= Len(str) /\ SubSeq(str, i + 1, i + Len(sub)) = sub

\* a float score is kept as the fraction it was divided from; 0.0 is 0/1
Fraction(n, d) == [num |-> n, den |-> d]
Less(x, y) == x.num * y.den < y.num * x.den

\* calculate_match_score, lines 111-132
calculate_match_score(query_keywords, db_question) ==
    IF query_keywords = <<>> THEN Fraction(0, 1)
    ELSE Fraction(Cardinality({k \in 1..Len(query_keywords) :
                                    Contains(query_keywords[k], str_lower(db_question))}),
                  Len(query_keywords))

\* f"{score*100:.0f}": the nearest integer, a tie going to the even one
Relevance(x) ==
    LET q == (100 * x.num) \div x.den
        r == (100 * x.num) % x.den
    IN  IF 2 * r < x.den THEN q
        ELSE IF 2 * r > x.den THEN q + 1
        ELSE IF q % 2 = 0 THEN q ELSE q + 1

\* lines 168-176: the rows that score above zero, in the order of the table
RECURSIVE Scored(_, _)
Scored(kw, rows) ==
    IF rows = <<>> THEN <<>>
    ELSE LET score == calculate_match_score(kw, Head(rows).question)
         IN  IF score.num > 0
             THEN <<[question |-> Head(rows).question, answer |-> Head(rows).answer, score |-> score]>>
                  \o Scored(kw, Tail(rows))
             ELSE Scored(kw, Tail(rows))

Without(seq, i) == [k \in 1..(Len(seq) - 1) |-> IF k < i THEN seq[k] ELSE seq[k + 1]]

\* a sort that leaves the list as it is
sort_none(ms) == ms

\* line 179: list.sort(key=score, reverse=True), a stable sort: rows of equal
\* score keep the order they had
RECURSIVE sort_reverse(_)
sort_reverse(ms) ==
    IF ms = <<>> THEN <<>>
    ELSE LET i == CHOOSE i \in 1..Len(ms) :
                    /\ \A j \in 1..Len(ms) : ~Less(ms[i].score, ms[j].score)
                    /\ \A j \in 1..(i - 1) : Less(ms[j].score, ms[i].score)
         IN  <<ms[i]>> \o sort_reverse(Without(ms, i))

\* lines 183-184: SELECT * FROM main WHERE question LIKE '%kw%' OR answer LIKE '%kw%'
\* (LIKE does not tell the case of ASCII letters); the keyword has no % or _
Like(kw, str) == Contains(kw, str_lower(str))
RECURSIVE Fallback(_, _)
Fallback(kw, rows) ==
    IF rows = <<>> THEN <<>>
    ELSE IF Like(kw, Head(rows).question) \/ Like(kw, Head(rows).answer)
         THEN <<[question |-> Head(rows).question, answer |-> Head(rows).answer]>> \o Fallback(kw, Tail(rows))
         ELSE Fallback(kw, Tail(rows))

\* the queries and the tables smart_query is run on
WhatIs == <<"W", "h", "a", "t", " ", "i", "s">>
NTUSTq == <<"N", "T", "U", "S", "T", "?">>
ntust == <<"n", "t", "u", "s", "t">>
located == <<"l", "o", "c", "a", "t", "e", "d">>
Chunks == {WhatIs, NTUSTq, ntust, located}
RECURSIVE Join(_)
Join(chunks) ==
    IF chunks = <<>> THEN <<>>
    ELSE IF Len(chunks) = 1 THEN chunks[1]
    ELSE chunks[1] \o <<" ">> \o Join(Tail(chunks))
Queries == {Join(cs) : cs \in SeqsUpTo(Chunks, MaxChunks)}

WhatIsNTUST == <<"W", "h", "a", "t", " ", "i", "s", " ", "N", "T", "U", "S", "T", "?">>
WhereIsNTUSTLocated == <<"W", "h", "e", "r", "e", " ", "i", "s", " ", "N", "T", "U", "S", "T", " ", "l", "o", "c", "a", "t", "e", "d", "?">>
WhoAreYou == <<"W", "h", "o", " ", "a", "r", "e", " ", "y", "o", "u", "?">>
StoredRows == {
    [question |-> WhatIsNTUST, answer |-> <<"A", " ", "u", "n", "i", "v", "e", "r", "s", "i", "t", "y">>],
    [question |-> WhereIsNTUSTLocated, answer |-> <<"I", "n", " ", "T", "a", "i", "p", "e", "i">>],
    [question |-> WhoAreYou, answer |-> <<"T", "h", "e", " ", "N", "T", "U", "S", "T", " ", "b", "o", "t">>]}
Tables == SeqsUpTo(StoredRows, MaxRows)

kbUnchanged == UNCHANGED <<lifeVars, turnVars, appVars>>

\* lines 157-162: the keywords of the query; none: the early return
KBExtract ==
    /\ kpc = "called"
    /\ keywords' = extract_keywords(query)
    /\ IF keywords' = <<>>
       THEN /\ kpc' = "returned"
            /\ result' = [kind |-> "no keywords", rows |-> <<>>]
       ELSE /\ kpc' = "extracted"
            /\ result' = result
    /\ kbUnchanged
    /\ UNCHANGED <<query, table, matches>>

\* lines 164-179: every row is scored, the rows above zero are sorted
KBScore ==
    /\ kpc = "extracted"
    /\ matches' = sort_reverse(Scored(keywords, table))
    /\ kpc' = "scored"
    /\ kbUnchanged
    /\ UNCHANGED <<query, table, keywords, result>>

\* lines 165 or 183 raise sqlite3.Error (lines 200-201)
KBDatabaseError ==
    /\ \/ kpc = "extracted"
       \/ kpc = "scored" /\ matches = <<>>
    /\ result' = [kind |-> "database error", rows |-> <<>>]
    /\ kpc' = "returned"
    /\ kbUnchanged
    /\ UNCHANGED <<query, table, keywords, matches>>

\* lines 181-198: the answer; no row above zero: the LIKE fallback on the first
\* keyword, every row it finds; else the first TopMatches rows of the sorted list
KBAnswer ==
    /\ kpc = "scored"
    /\ result' =
        IF matches = <<>>
        THEN IF Fallback(keywords[1], table) # <<>>
             THEN [kind |-> "fallback", rows |-> Fallback(keywords[1], table)]
             ELSE [kind |-> "no matches", rows |-> <<>>]
        ELSE [kind |-> "matches",
              rows |-> [k \in 1..(IF Len(matches) < TopMatches THEN Len(matches) ELSE TopMatches) |->
                            [question |-> matches[k].question, answer |-> matches[k].answer,
                             relevance |-> Relevance(matches[k].score)]]]
    /\ kpc' = "returned"
    /\ kbUnchanged
    /\ UNCHANGED <<query, table, keywords, matches>>

\* the tool is called with a query (line 136); the locals start empty.  A call
\* leaves nothing behind it (the connection is closed, line 203), so one call
\* on every table is all the calls there are.
KBCall(q) ==
    /\ kpc = "idle"
    /\ query' = q
    /\ kpc' = "called"
    /\ keywords' = <<>>
    /\ matches' = <<>>
    /\ result' = [kind |-> "none", rows |-> <<>>]
    /\ kbUnchanged
    /\ UNCHANGED table

InitKB ==
    /\ InitClient
    /\ config = TurnConfig
    /\ AppInit
    /\ query = <<>>
    /\ table \in Tables
    /\ kpc = "idle"
    /\ keywords = <<>>
    /\ matches = <<>>
    /\ result = [kind |-> "none", rows |-> <<>>]

NextKB ==
    \/ \E q \in Queries : KBCall(q)
    \/ KBExtract
    \/ KBScore
    \/ KBDatabaseError
    \/ KBAnswer

SpecKB == InitKB /\ [][NextKB]_vars

(***************************************************************************)
(* Claims about create(), get_tools(), select_server() and the closing.    *)
(***************************************************************************)
RECURSIVE SumLen(_)
SumLen(ls) == IF ls = <<>> THEN 0 ELSE Len(Head(ls)) + SumLen(Tail(ls))

\* the names of the form "<server>/<tool>": a configured server's name, the
\* separator, a tool that server advertised
WellFormed(n) ==
    \E i \in 1..Len(adv) : \E j \in 1..Len(adv[i]) : n = Namespaced(config[i], adv[i][j])

DefaultScope == pc = "ready" /\ lastSel = NoSel

\* C1: after create() succeeded, get_tools() under the default scope has as many
\* entries as the servers advertised tools in total, every entry is named
\* "<server>/<tool>", and no two entries have the same name.
C1_CatalogCountFormUnique ==
    DefaultScope =>
        /\ Len(get_tools(selected_server)) = SumLen(adv)
        /\ \A k \in 1..Len(get_tools(selected_server)) : WellFormed(get_tools(selected_server)[k])
        /\ NoRepeat(get_tools(selected_server))

\* the part of C1 that the code keeps: the count and the form of the names
C1_CountAndForm ==
    DefaultScope =>
        /\ Len(get_tools(selected_server)) = SumLen(adv)
        /\ \A k \in 1..Len(get_tools(selected_server)) : WellFormed(get_tools(selected_server)[k])

\* two servers whose namespaced tools collide: "a" + "/" + "b/t" = "a/b" + "/" + "t"
C1_Collision ==
    /\ DefaultScope
    /\ Len(get_tools(selected_server)) = 2
    /\ get_tools(selected_server)[1] = get_tools(selected_server)[2]

Connected(a) == \E i \in 1..Len(adv) : config[i] = a
AdvertisedBy(a) == adv[CHOOSE i \in 1..Len(adv) : config[i] = a]

\* C2: select_server([a]) followed by get_tools() gives exactly the tools server a
\* advertised, under a's namespace, when a is connected, and the empty list, with
\* no error, when a is no connected server.
C2_SelectOneServer ==
    \A a \in SelNames :
        (pc = "ready" /\ lastSel = {a}) =>
            /\ Connected(a) => get_tools(selected_server) = NamespacedTools(a, AdvertisedBy(a))
            /\ ~Connected(a) => get_tools(selected_server) = <<>>

C2_Witness ==
    /\ pc = "ready"
    /\ lastSel = {A}
    /\ Len(servers) = 2
    /\ config[1] = A
    /\ Len(adv[1]) = 2
    /\ Len(adv[2]) > 0
    /\ Len(get_tools(selected_server)) = 2

C2_WitnessUnknown ==
    /\ pc = "ready"
    /\ lastSel = {B}
    /\ ~Connected(B)
    /\ SumLen(adv) > 0
    /\ get_tools(selected_server) = <<>>

\* C3: select_server creates and destroys no session: a call leaves the session
\* map, every session's tool list, the exit stack and the released contexts as
\* they were; and the selected scope is always a part of the session map.
\* (Under Spec the steps of a created client that are not a close are the
\* select_server calls.)
C3_ScopeWithinSessions == \A i \in 1..Len(selected_server) : selected_server[i] \in Range(servers)

C3_SelectKeepsSessions ==
    /\ []C3_ScopeWithinSessions
    /\ [][(pc = "ready" /\ pc' = "ready" /\ closes' = closes) =>
            /\ servers' = servers
            /\ exit_stack' = exit_stack
            /\ released' = released
            /\ launched' = launched]_vars

C3_Witness ==
    /\ lastSel # NoSel
    /\ Len(servers) = 2
    /\ Len(selected_server) = 1
    /\ Len(exit_stack) = 4

\* the contexts create() entered: for each launched server its transport and its session
Opened == {StdioOf(launched[i]) : i \in 1..Len(launched)} \cup {SessionOf(launched[i]) : i \in 1..Len(launched)}

\* C8: closing a created client releases every opened session exactly once, and a
\* second close releases none of them again.
C8_CloseReleasesOnce ==
    /\ \A r \in Range(released) : Count(r, released) = 1
    /\ closes >= 1 => (exit_stack = <<>> /\ \A r \in Opened : Count(r, released) = 1)

C8_Witness ==
    /\ closes = 2
    /\ Len(launched) = 2
    /\ Len(released) = 4

\* C9: when create() fails at some server, every session and subprocess opened
\* before is released: once the failure is reported, no opened context is left
\* unreleased.
C9_FailedCreateReleases ==
    pc = "failed" => \A r \in Opened : r \in Range(released)

\* create() failed at the second server, the first one's subprocess is running
C9_Leak ==
    /\ pc = "failed"
    /\ idx = 1
    /\ StdioOf(config[1]) \in Range(exit_stack)
    /\ released = <<>>

\* C10: create() returns a client holding one session for every configured name,
\* in the configured order, or it fails: a client is never returned with the
\* sessions of a part of the configuration, and no server after the failing one
\* is launched.
C10_AllOrNothing ==
    /\ returned => (pc = "ready" /\ Names(servers) = config /\ launched = config)
    /\ pc = "ready" => returned
    /\ pc = "failed" =>
        /\ ~returned
        /\ selected_server = <<>>
        /\ Len(launched) <= idx + 1
        /\ \A i \in 1..Len(launched) : launched[i] = config[i]

C10_Witness ==
    /\ pc = "failed"
    /\ Len(config) = 2
    /\ idx = 0
    /\ Len(launched) = 1

(***************************************************************************)
(* Claims about the turn.                                                  *)
(***************************************************************************)
TurnOver == tpc \in {"done", "raised"}
EndpointAnswered == err # "ChatError"
\* the streams that requested tool calls, and whether the last stream is plain content
ToolResponses == Cardinality({i \in 1..Len(log.resp) : log.resp[i].calls > 0})
LastIsPlainContent ==
    /\ log.resp # <<>>
    /\ log.resp[Len(log.resp)].calls = 0
    /\ log.resp[Len(log.resp)].content > 0
\* the streams so far are the beginning of a script "N responses that request
\* tool calls, then one of plain content"
ScriptedSoFar ==
    /\ log.resp # <<>>
    /\ \A i \in 1..(Len(log.resp) - 1) : log.resp[i].calls > 0
    /\ log.resp[Len(log.resp)].calls > 0 \/ LastIsPlainContent
\* C4: against an endpoint whose first N responses request tool calls and whose
\* next response is plain content, a turn ends only after that plain response,
\* whose content is the last part delivered; it has then issued N+1 chat requests,
\* invoked one tool per requested call and appended as many tool messages.
C4_ScriptedTurn ==
    (TurnOver /\ EndpointAnswered /\ ScriptedSoFar) =>
        /\ tpc = "done"
        /\ LastIsPlainContent
        /\ log.chat = ToolResponses + 1
        /\ Len(log.invoked) = log.requested
        /\ log.toolmsgs = log.requested
        /\ out # <<>>
        /\ out[Len(out)] = [role |-> "assistant", content |-> <<"fragment", log.chat>>]

\* C5: a remote execution that raises is caught: an error message for the call
\* goes to the history as a tool message, and the turn is not aborted.
C5_RemoteErrorFolded ==
    log.thrown # <<>> =>
        /\ err \notin {"KeyError", "IndexError"}
        /\ tpc # "executing" => log.folded = log.thrown

\* C6: a requested tool whose server is not in the selected scope is answered
\* with a tool-role error message in the history; process_message does not raise
\* and the turn goes on.
C6_UnscopedToolFolded ==
    log.unscoped # <<>> =>
        /\ tpc # "raised"
        /\ tpc # "executing" => \A i \in 1..Len(log.unscoped) : log.unscoped[i] \in Range(log.folded)

\* C7: _tool_call never raises, whatever the calls of the batch are, and holds
\* one string for every call it has worked on.
C7_ToolCallNeverRaises ==
    /\ err \notin {"KeyError", "IndexError"}
    /\ tpc = "executing" => Len(tmsgs) = bi

IsPrefix(s, t) == Len(s) <= Len(t) /\ \A i \in 1..Len(s) : s[i] = t[i]
InTurn == tpc \in {"prompting", "streaming", "executing"}

\* C12: during a turn the history only grows at its end; a step that does not
\* keep the history as a prefix is a prepare_prompt between two turns, and it
\* leaves the system prompt alone in the history.
C12_HistoryAppendOnly ==
    [][/\ InTurn => IsPrefix(messages, messages')
       /\ ~IsPrefix(messages, messages') => (~InTurn /\ ~InTurn' /\ messages' = <<SystemMessage>>)]_vars

\* a finished turn that appended tool messages, and the history cleared after it
C12_Witness ==
    /\ tpc = "done"
    /\ log.toolmsgs = 2
    /\ messages = <<SystemMessage>>

\* the outcomes of the last n call_tool executions, oldest first
LastOutcomes(n) == [i \in 1..n |-> log.invoked[Len(log.invoked) - n + i][3]]

\* C13: in one round the tools are invoked one after the other in the order of
\* the request (the k-th execution is that of the k-th call of the batch), and
\* their tool messages are appended to the history in that order.
C13_RequestOrder ==
    /\ [](tpc = "executing" =>
            /\ bi <= Len(log.invoked)
            /\ Len(tmsgs) = bi
            /\ \A i \in 1..bi :
                /\ log.invoked[Len(log.invoked) - bi + i][1] = Split(batch[i])[1]
                /\ log.invoked[Len(log.invoked) - bi + i][2] = Split(batch[i])[2]
                /\ tmsgs[i] = ToolText(batch[i], LastOutcomes(bi)[i]))
    /\ [][(tpc = "executing" /\ tpc' = "streaming") =>
            messages' = messages \o
                [i \in 1..Len(batch) |-> ToolMessage(ToolText(batch[i], LastOutcomes(Len(batch))[i]))]]_vars

\* a batch of two calls, the first returned and the second raised, both in the history
C13_Witness ==
    /\ tpc = "streaming"
    /\ log.chat = 1
    /\ Len(log.invoked) = 2
    /\ log.invoked[1][3] = "return"
    /\ log.invoked[2][3] = "raise"
    /\ Len(messages) >= 2
    /\ messages[Len(messages) - 1] = ToolMessage(ToolText(AT, "return"))
    /\ messages[Len(messages)] = ToolMessage(ToolText(AT, "raise"))

\* C14: the session of a tool call is looked up in the selected scope: every
\* call_tool execution runs on a session that is selected when the call is made.
C14_CallsOnlyInScope ==
    [][Len(log'.invoked) > Len(log.invoked) =>
            log'.invoked[Len(log'.invoked)][1] \in Range(Names(selected_server))]_vars

\* after select_server(["b"]) the model asks for a tool of the connected server
\* a: the call is not executed
C14_Witness ==
    /\ lastSel = {B}
    /\ A \in Range(Names(servers))
    /\ log.unscoped = <<AT>>
    /\ log.invoked = <<>>
    /\ err = "KeyError"

AssistantParts == {i \in 1..Len(out) : out[i].role = "assistant"}
ToolParts == {i \in 1..Len(out) : out[i].role = "tool"}
RECURSIVE ContentUnits(_)
ContentUnits(resp) == IF resp = <<>> THEN 0 ELSE Head(resp).content + ContentUnits(Tail(resp))

\* C15 as stated: process_message yields assistant content fragments and nothing else.
C15_OnlyAssistantParts == \A i \in 1..Len(out) : out[i].role = "assistant"

\* C15 as amended: process_message yields one assistant part for every unit with
\* content and one tool part for every tool message it appends to the history,
\* and no other part.
C15_AssistantAndToolParts ==
    /\ \A i \in 1..Len(out) : out[i].role \in {"assistant", "tool"}
    /\ Cardinality(AssistantParts) = ContentUnits(log.resp)
    /\ Cardinality(ToolParts) = log.toolmsgs

C15_Witness ==
    /\ tpc = "done"
    /\ Cardinality(ToolParts) = 1
    /\ Cardinality(AssistantParts) = 1

\* C16: a chat request that fails ends the turn with the error raised to the
\* caller: the turn makes no tool invocation and no chat request after it.
C16_ChatFailureFatal ==
    /\ [](err = "ChatError" => tpc = "raised")
    /\ [][(err = "ChatError" /\ turns' = turns) =>
            /\ tpc' = "raised"
            /\ log'.chat = log.chat
            /\ log'.invoked = log.invoked]_vars

\* the request of the second round failed, after a tool was invoked in the first
C16_Witness ==
    /\ err = "ChatError"
    /\ tpc = "raised"
    /\ log.chat = 2
    /\ Len(log.invoked) = 1

\* the contexts in the order create() entered them
Acquired == Flatten([i \in 1..Len(launched) |-> <<StdioOf(launched[i]), SessionOf(launched[i])>>])
AcquiredAt(r) == CHOOSE i \in 1..Len(Acquired) : Acquired[i] = r

\* C18: the contexts are released in the reverse of the order of their
\* acquisition: of two released contexts, the one acquired later is released first.
C18_ReleaseLastInFirstOut ==
    (pc = "ready" /\ closes >= 1) =>
        /\ Len(released) = Len(Acquired)
        /\ \A i, j \in 1..Len(released) :
            i < j => AcquiredAt(released[i]) > AcquiredAt(released[j])

C18_Witness ==
    /\ closes = 1
    /\ Len(config) = 2
    /\ released = <<SessionOf(config[2]), StdioOf(config[2]), SessionOf(config[1]), StdioOf(config[1])>>

Creating == {p \in Reqs : rpc[p] = "creating"}

\* C11: the check of the singleton and the construction run under the lock:
\* at most one construction is in progress, its caller holds the lock, at most
\* one client is ever constructed, and every caller that is handed a client is
\* handed that one.
C11_SingleConstruction ==
    /\ Cardinality(Creating) <= 1
    /\ \A p \in Creating : lock = p /\ singleton = 0
    /\ lock # 0 => lock \in Creating
    /\ made <= 1
    /\ singleton = made
    /\ \A p \in Reqs : got[p] # 0 => got[p] = singleton

\* two first requests: one was suspended while the other constructed, and both
\* hold the one client
C11_Witness ==
    /\ made = 1
    /\ \A p \in Reqs : got[p] = 1
    /\ \E p \in Reqs : saved[p] = "unset"
    /\ \E p \in Reqs : saved[p] = "original"

\* C17 as stated: a request with a message whose service failed, in the
\* construction of the client or in the turn, is answered 500 with an error body.
C17_FailureAnswered500 ==
    \A p \in Reqs : failed[p] # "none" =>
        /\ status[p] = 500
        /\ body[p] = "error: kind: detail"

\* the tokens of a query: the maximal runs of a-z and 0-9 of the lower-cased
\* query, as the pairs of their first and last position
AlnumChars == Range(LowerCase) \cup Digits
Alnum(c) == c \in AlnumChars
TokenSpans(low) ==
    {sp \in (1..Len(low)) \X (1..Len(low)) :
        /\ sp[1] <= sp[2]
        /\ sp[1] = 1 \/ ~Alnum(low[sp[1] - 1])
        /\ sp[2] = Len(low) \/ ~Alnum(low[sp[2] + 1])
        /\ \A i \in sp[1]..sp[2] : Alnum(low[i])}
\* those of three characters or more that are no stopwords
KeywordSpans(low) ==
    {sp \in TokenSpans(low) :
        sp[2] - sp[1] >= 2 /\ SubSeq(low, sp[1], sp[2]) \notin stopwords}
SameFraction(x, y) == x.num * y.den = y.num * x.den
\* extract_keywords has just returned
Extracted == kpc = "extracted" \/ (kpc = "returned" /\ result.kind = "no keywords")

\* C19 as stated: extract_keywords yields the set of the distinct lower-cased
\* alphanumeric tokens of three characters or more that are no stopwords, none
\* of them twice, and the score of a question is the fraction of that set the
\* lower-cased question contains.
C19_KeywordSet ==
    Extracted =>
        LET low == str_lower(query)
            set == {SubSeq(low, sp[1], sp[2]) : sp \in KeywordSpans(low)}
        IN  /\ Range(keywords) = set
            /\ NoRepeat(keywords)
            /\ \A r \in 1..Len(table) :
                set # {} =>
                    SameFraction(calculate_match_score(keywords, table[r].question),
                                 Fraction(Cardinality({w \in set : Contains(w, str_lower(table[r].question))}),
                                          Cardinality(set)))

\* C19 as amended: extract_keywords yields the list of those tokens in the order
\* of the query, a token as often as the query has it, and the score of a
\* question is the fraction of the entries of the list that the lower-cased
\* question contains (0 for an empty list).
C19_KeywordList ==
    Extracted =>
        LET low == str_lower(query)
            spans == KeywordSpans(low)
        IN  /\ Len(keywords) = Cardinality(spans)
            /\ \A sp \in spans :
                keywords[Cardinality({o \in spans : o[1] <= sp[1]})] = SubSeq(low, sp[1], sp[2])
            /\ \A r \in 1..Len(table) :
                LET score == calculate_match_score(keywords, table[r].question)
                    question == table[r].question
                    hits == {k \in 1..Len(keywords) :
                                \E i \in 1..Len(question) :
                                    /\ i + Len(keywords[k]) - 1 <= Len(question)
                                    /\ \A c \in 1..Len(keywords[k]) :
                                         CharLower(question[i + c - 1]) = keywords[k][c]}
                IN  SameFraction(score, Fraction(Cardinality(hits), Len(keywords)))

\* 'What is NTUST?' gives the one keyword ntust; a stored 'Where is NTUST
\* located?' is scored for it
C19_Witness ==
    /\ kpc = "scored"
    /\ query = WhatIsNTUST
    /\ keywords = <<ntust>>
    /\ \E r \in 1..Len(table) : table[r].question = WhereIsNTUSTLocated
    /\ \A k \in 1..Len(matches) : SameFraction(matches[k].score, Fraction(1, 1))

\* a query that names ntust twice, scored against a question without "located"
C19_WitnessRepeated ==
    /\ kpc = "scored"
    /\ keywords = <<ntust, ntust>>
    /\ Len(matches) >= 1

\* the score of every row of the table, and the rows that score above zero
Scores == [r \in 1..Len(table) |-> calculate_match_score(keywords, table[r].question)]
PositiveIn(sc) == {r \in DOMAIN sc : sc[r].num > 0}
Positive == PositiveIn(Scores)
\* the rows of a "matches" answer are the n highest-scoring rows of the table in
\* descending order: they are rows of the table with their relevance, no row
\* scores above the row before it, and for every score as many rows at or
\* above it are returned as the table has, up to n
TopRanked(n) ==
    LET sc == Scores
        rel == [r \in DOMAIN sc |-> Relevance(sc[r])]
        pos == PositiveIn(sc)
    IN  /\ Len(result.rows) = n
        /\ \A k \in 1..n : \E r \in pos :
            /\ result.rows[k].question = table[r].question
            /\ result.rows[k].answer = table[r].answer
            /\ result.rows[k].relevance = rel[r]
        /\ \A k \in 1..(n - 1) : result.rows[k].relevance >= result.rows[k + 1].relevance
        /\ \A r \in pos :
            LET above == Cardinality({o \in pos : ~Less(sc[o], sc[r])})
                back == Cardinality({k \in 1..n : result.rows[k].relevance >= rel[r]})
            IN  back = IF above < n THEN above ELSE n
        /\ (\E r \in pos : sc[r].num = sc[r].den) => result.rows[1].relevance = 100

\* C20 as stated: whatever the query and the table, smart_query returns at most
\* three matches, and when a stored question scores above zero they are the
\* highest-scoring ones in descending order.
C20_AtMostThree ==
    (kpc = "returned" /\ result.kind # "database error") =>
        /\ Len(result.rows) <= 3
        /\ LET some == Cardinality(Positive)
           IN  some > 0 => TopRanked(IF some < 3 THEN some ELSE 3)

\* C20 as amended: when a stored question scores above zero, smart_query returns
\* the three highest-scoring rows (all of them if fewer) in descending order, a
\* row of relevance 100 first if a question contains every keyword; when none
\* does and there are keywords, it returns every row whose question or answer
\* contains the first keyword, however many.
C20_TopThreeOrAllFallback ==
    (kpc = "returned" /\ result.kind \notin {"database error", "no keywords"}) =>
        LET some == Cardinality(Positive) IN
        IF some > 0
        THEN /\ result.kind = "matches"
             /\ TopRanked(IF some < 3 THEN some ELSE 3)
        ELSE /\ result.kind \in {"fallback", "no matches"}
             /\ Len(result.rows) = Cardinality({r \in 1..Len(table) :
                    \/ Contains(keywords[1], str_lower(table[r].question))
                    \/ Contains(keywords[1], str_lower(table[r].answer))})
             /\ \A k \in 1..Len(result.rows) : Contains(keywords[1], str_lower(result.rows[k].answer))

\* four stored questions score above zero: three come back, the one with both
\* keywords first
C20_Witness ==
    /\ kpc = "returned"
    /\ result.kind = "matches"
    /\ Cardinality(Positive) = 4
    /\ Len(result.rows) = 3
    /\ table[1].question = WhatIsNTUST
    /\ result.rows[1].question = WhereIsNTUSTLocated
    /\ result.rows[1].relevance = 100
    /\ result.rows[3].relevance = 50

\* no stored question has the keyword, four answers have it: four rows come back
C20_WitnessFallback ==
    /\ kpc = "returned"
    /\ result.kind = "fallback"
    /\ Len(result.rows) = 4

LastStream == log.resp[Len(log.resp)]

\* C21: every tool call a streamed unit carries is invoked once and gives one
\* tool message in the history, and the unit that carries it sets the counter
\* that makes the next round, whatever else the unit carries.
C21_EveryCallInvoked ==
    tpc # "executing" =>
        /\ log.ignored = 0
        /\ Len(log.invoked) = log.requested
        /\ log.toolmsgs = log.requested
        /\ (tpc = "streaming" /\ LastStream.calls > 0) => tool_message_count > 0

\* C22: a chat request after the first one is made when the stream before it has
\* ended with every tool result in the history, and it is made exactly when
\* that stream held a tool call: a turn that ends without a failed chat request
\* ends on a stream that held none.
C22_NewRequestIffToolCall ==
    /\ (tpc = "prompting" /\ log.chat > 0) =>
        /\ LastStream.calls > 0
        /\ batch = <<>>
        /\ tmsgs = <<>>
    /\ (tpc \in {"done", "raised"} /\ err # "ChatError") => LastStream.calls = 0

\* C23: nothing but a stream without tool calls ends a turn: a turn whose
\* streams all requested tools is never done.
C23_DoneOnlyAfterPlainStream ==
    tpc = "done" => \E i \in 1..Len(log.resp) : log.resp[i].calls = 0

\* C25: the history holds system, user and tool messages only: what is streamed
\* to the caller as assistant content is never appended, so no chat request
\* carries an earlier answer of the assistant.
C25_NoAssistantInHistory ==
    \A i \in 1..Len(messages) :
        /\ messages[i].role \in {"system", "user", "tool"}
        /\ \A k \in 1..Len(out) : out[k].role = "assistant" => messages[i].content # out[k].content

\* the second chat request of a turn, made after a fragment of the first stream
\* was delivered to the caller
C25_Witness ==
    /\ tpc = "streaming"
    /\ log.chat = 2
    /\ log.resp[1].content > 0
    /\ \E k \in 1..Len(out) : out[k].role = "assistant"
    /\ Len(messages) >= 2

SystemFirst == messages # <<>> /\ messages[1] = SystemMessage

\* C26: the system prompt is the first message of the history exactly when
\* prepare_prompt() has been called on the client; the history of a client on
\* which it was never called is empty or begins with the user message.
C26_SystemFirstIffPrepared ==
    /\ SystemFirst <=> log.prepared
    /\ (~log.prepared /\ messages # <<>>) => messages[1] = UserMessage

\* a chat request of a client that was never cleared
C26_Witness ==
    /\ ~log.prepared
    /\ tpc = "streaming"
    /\ log.chat = 1
    /\ messages[1] = UserMessage

\* a chat request of a client that was cleared before the turn
C26_WitnessPrepared ==
    /\ log.prepared
    /\ tpc = "streaming"
    /\ messages[1] = SystemMessage
    /\ messages[2] = UserMessage

\* C27: the scope after select_server(B) is exactly the connected sessions whose
\* name is in B, whatever was selected before: a selection does not add up with
\* the one before it, and selecting all the connected names gives back every
\* session and the full catalog.
C27_ScopeOfLastSelectOnly ==
    (pc = "ready" /\ lastSel # NoSel) =>
        /\ \A i \in 1..Len(servers) :
            servers[i] \in Range(selected_server) <=> servers[i].name \in lastSel
        /\ Range(selected_server) \subseteq Range(servers)
        /\ NoRepeat(selected_server)
        /\ Range(Names(servers)) \subseteq lastSel =>
            /\ selected_server = servers
            /\ get_tools(selected_server) = get_tools(servers)

\* select_server(["a"]) followed by select_server(["b"]): b, which the first
\* selection had left out, is the scope
C27_Witness ==
    /\ pc = "ready"
    /\ log.prevsel = {A}
    /\ lastSel = {B}
    /\ Range(Names(servers)) = {A, B}
    /\ Names(selected_server) = <<B>>

\* a selection that left nothing in scope, then the selection of every connected name
C27_WitnessRestored ==
    /\ pc = "ready"
    /\ log.prevsel # NoSel
    /\ log.prevsel \cap Range(Names(servers)) = {}
    /\ servers # <<>>
    /\ Range(Names(servers)) \subseteq lastSel
    /\ selected_server = servers

\* C24: the turns of two concurrent requests change the history of the shared
\* client one after the other: the messages of one turn are not interleaved
\* with those of another, and no chat request is sent with the messages of a
\* turn of another request that is still under way.
C24_TurnsSerialized ==
    /\ \A i, j, k \in 1..Len(hist) : (i < j /\ j < k /\ hist[i][1] = hist[k][1]) => hist[j][1] = hist[i][1]
    /\ \A p \in Reqs : ~mixed[p]

\* C28: a construction that fails leaves the lock free, the singleton absent and
\* the working directory restored, and its caller without a client; once a
\* client has been constructed no request is constructing another.
C28_FailedConstructionLeavesNothing ==
    /\ Creating = {} => (lock = 0 /\ cwd = "original")
    /\ \A p \in Reqs : failed[p] = "construction" => (got[p] = 0 /\ lock # p /\ rpc[p] = "answered")
    /\ made = 0 => singleton = 0
    /\ made >= 1 => (Creating = {} /\ singleton = 1 /\ made = 1)

\* the construction of one request failed and a later request constructed the client
C28_Witness ==
    \E p, q \in Reqs :
        /\ failed[p] = "construction"
        /\ status[p] = 500
        /\ saved[q] = "original"
        /\ got[q] = 1
        /\ lock = 0
        /\ cwd = "original"

====
